---- MODULE Spec2Model ----
(***************************************************************************)
(* Model of the chunking functions of RAG_model.ipynb:                     *)
(*   func                       the window combiner                        *)
(*   semantic_chunking          the sequential similarity chunker          *)
(*   semantic_cluster_chunking  the anchor cluster chunker                 *)
(*                                                                         *)
(* One behaviour is one call of one of the three functions.  Texts are     *)
(* sequences of one-character strings.  Python indices are 0-based and are *)
(* kept 0-based as values; the element with Python index k of a list L is  *)
(* L[k + 1].  Similarities and thresholds are in hundredths (100 = 1.0).   *)
(***************************************************************************)
EXTENDS Integers, Sequences, FiniteSets, TLC

VARIABLES call, pc, error, encoded,
          sentences, buffer_size, combined, index,
          comb, embeddings, rounding, threshold, chunk_limit, chunk_limit_is_None,
          anchor_stride, chunks, current_chunk, current_len, i,
          used, ranked, pos, chunk, word_count, anchors

vars == <<call, pc, error, encoded,
          sentences, buffer_size, combined, index,
          comb, embeddings, rounding, threshold, chunk_limit, chunk_limit_is_None,
          anchor_stride, chunks, current_chunk, current_len, i,
          used, ranked, pos, chunk, word_count, anchors>>

funcVars == <<sentences, buffer_size, combined, index>>
inputVars == <<comb, embeddings, rounding, threshold, anchor_stride,
               chunk_limit_is_None>>
seqVars == <<current_chunk, current_len>>
clusterVars == <<used, ranked, pos, chunk, word_count, anchors>>

(***************************************************************************)
(* Bounds of the model.                                                    *)
(***************************************************************************)
MaxSentences == 3
MaxBuffer == 2
MaxWindows == 3

(***************************************************************************)
(* Inputs.                                                                 *)
(***************************************************************************)
SentenceTexts == { <<"A", ".">>, <<"B", ".">>, <<"C", ".">> }

\* window texts of 0, 1 and 2 whitespace-delimited words
WindowTexts == { <<>>, <<"a">>, <<"b", " ", "c">> }

\* the embedding provider returns one of three unit vectors per window
Vectors == {"u", "v", "w"}

\* 0.75 (the default), 1.0, and 1.5 (outside [0,1])
Thresholds == {75, 100, 150}

DefaultChunkLimit == 512

\* chunk_limit arguments; semantic_chunking may also be called without one
\* (chunk_limit_is_None), semantic_cluster_chunking then defaults to 512
ChunkLimits == {-1, 0, 1, 2}

DefaultAnchorStride == 5
AnchorStrides == {-1, 0, 1, 2, MaxWindows, DefaultAnchorStride}

BufferSizes == -1 .. MaxBuffer

SeqsOver(S, n) == UNION { [1 .. k -> S] : k \in 0 .. n }

Min(a, b) == IF a < b THEN a ELSE b

(***************************************************************************)
(* Python helpers.                                                         *)
(***************************************************************************)
\* range(lo, hi) as the sequence lo, lo+1, ..., hi-1
Range(lo, hi) == IF hi > lo THEN [k \in 1 .. (hi - lo) |-> lo + k - 1] ELSE <<>>

\* val = val + sentences[o]['sentences'] for o in the range rng, from val = ''
RECURSIVE ConcatSentences(_, _)
ConcatSentences(sents, rng) ==
    IF rng = <<>> THEN <<>>
    ELSE ConcatSentences(sents, SubSeq(rng, 1, Len(rng) - 1))
             \o sents[rng[Len(rng)] + 1].sentences

\* len(text.split()): the number of maximal runs of non-whitespace characters
WordCount(text) ==
    Cardinality({ k \in 1 .. Len(text) :
                     /\ text[k] # " "
                     /\ (k = 1 \/ text[k - 1] = " ") })

\* " ".join(texts)
RECURSIVE Join(_)
Join(texts) ==
    IF texts = <<>> THEN <<>>
    ELSE IF Len(texts) = 1 THEN texts[1]
    ELSE texts[1] \o <<" ">> \o Join(Tail(texts))

\* the texts comb[idx] of a list of window indices
TextsOf(members) == [k \in 1 .. Len(members) |-> comb[members[k] + 1]]

\* chunks.append(" ".join(members)); the member indices are kept beside the text
EmitChunk(members) == [text |-> Join(TextsOf(members)), members |-> members]

\* exact cosine of two distinct unit vectors of the embedding provider
ExactCosine(e1, e2) ==
    IF {e1, e2} = {"u", "v"} THEN 90
    ELSE IF {e1, e2} = {"v", "w"} THEN 50
    ELSE 75

\* cosine_similarity([e1], [e2])[0][0]: identical vectors give 1.0 up to the
\* floating-point rounding of the normalised dot product
cosine_similarity(e1, e2) ==
    IF e1 = e2 THEN 100 + rounding ELSE ExactCosine(e1, e2)

(***************************************************************************)
(* Initial states: one call with its arguments.                            *)
(***************************************************************************)
NoFunc ==
    /\ sentences = <<>> /\ buffer_size = 0 /\ combined = <<>> /\ index = 0

NoChunker ==
    /\ comb = <<>> /\ embeddings = <<>> /\ rounding = 0 /\ threshold = 75
    /\ chunk_limit = DefaultChunkLimit /\ chunk_limit_is_None = FALSE
    /\ anchor_stride = DefaultAnchorStride
    /\ chunks = <<>> /\ i = 0

NoSeq == current_chunk = <<>> /\ current_len = 0

NoCluster ==
    /\ used = {} /\ ranked = <<>> /\ pos = 0 /\ chunk = <<>>
    /\ word_count = 0 /\ anchors = <<>>

InitFunc ==
    /\ call = "func"
    /\ \E texts \in SeqsOver(SentenceTexts, MaxSentences) :
          sentences = [k \in 1 .. Len(texts) |->
                          [sentences |-> texts[k], index |-> k - 1]]
    /\ buffer_size \in BufferSizes
    /\ combined = <<>> /\ index = 0
    /\ NoChunker /\ NoSeq /\ NoCluster

InitWindows ==
    /\ comb \in SeqsOver(WindowTexts, MaxWindows)
    /\ embeddings \in [1 .. Len(comb) -> Vectors]
    /\ rounding \in {-1, 0, 1}
    /\ chunks = <<>> /\ i = 0

InitSeq ==
    /\ call = "semantic_chunking"
    /\ InitWindows
    /\ threshold \in Thresholds
    /\ \/ chunk_limit_is_None = TRUE /\ chunk_limit = 0
       \/ chunk_limit_is_None = FALSE /\ chunk_limit \in ChunkLimits
    /\ anchor_stride = DefaultAnchorStride
    /\ NoFunc /\ NoSeq /\ NoCluster

InitCluster ==
    /\ call = "semantic_cluster_chunking"
    /\ InitWindows
    /\ threshold = 75
    /\ chunk_limit \in ChunkLimits \cup {DefaultChunkLimit}
    /\ chunk_limit_is_None = FALSE
    /\ anchor_stride \in AnchorStrides
    /\ NoFunc /\ NoSeq /\ NoCluster

Init ==
    /\ pc = "start" /\ error = "none" /\ encoded = FALSE
    /\ (InitFunc \/ InitSeq \/ InitCluster)

(***************************************************************************)
(* func(sentences, buffer_size)                                            *)
(***************************************************************************)
\* mutant of Window: the right span stops one sentence early
WindowShortRight(sents, buf, idx) ==
    ConcatSentences(sents, Range(idx - Min(idx, buf), idx + 1))
        \o ConcatSentences(sents, Range(idx + 1, Min(Len(sents), buf + idx)))

\* the value k appended for one index of the outer loop
Window(sents, buf, idx) ==
    ConcatSentences(sents, Range(idx - Min(idx, buf), idx + 1))
        \o ConcatSentences(sents, Range(idx + 1, Min(Len(sents), buf + 1 + idx)))

FuncStart ==
    /\ call = "func" /\ pc = "start"
    /\ combined' = <<>>
    /\ index' = 0
    /\ pc' = "loop"
    /\ UNCHANGED <<call, error, encoded, sentences, buffer_size, inputVars,
                   chunk_limit, chunks, i, seqVars, clusterVars>>

FuncLoop ==
    /\ call = "func" /\ pc = "loop"
    /\ index < Len(sentences)
    /\ combined' = Append(combined, Window(sentences, buffer_size, index))
    /\ index' = index + 1
    /\ UNCHANGED <<call, pc, error, encoded, sentences, buffer_size, inputVars,
                   chunk_limit, chunks, i, seqVars, clusterVars>>

FuncReturn ==
    /\ call = "func" /\ pc = "loop"
    /\ index >= Len(sentences)
    /\ pc' = "done"
    /\ UNCHANGED <<call, error, encoded, funcVars, inputVars,
                   chunk_limit, chunks, i, seqVars, clusterVars>>

(***************************************************************************)
(* semantic_chunking(comb, threshold, chunk_limit)                         *)
(***************************************************************************)
\* mutant of Merges: the length of the next window is left out of the budget
MergesIgnoringNextLen(sim, th, cur, next, limit) == sim > th /\ cur <= limit

\* mutant of Merges: the similarity is not tested
MergesIgnoringSimilarity(sim, th, cur, next, limit) == cur + next <= limit

\* mutant of Merges: a similarity equal to the threshold merges
MergesAtThreshold(sim, th, cur, next, limit) == sim >= th /\ cur + next <= limit

\* the test that appends window k to the current chunk
Merges(sim, th, cur, next, limit) == sim > th /\ cur + next <= limit

\* mutant of NewChunk: the new chunk starts empty
NewChunkEmpty(k) == <<>>

\* current_chunk = [comb[k]]
NewChunk(k) == <<k>>

SeqStart ==
    /\ call = "semantic_chunking" /\ pc = "start"
    /\ chunk_limit' = IF chunk_limit_is_None THEN DefaultChunkLimit ELSE chunk_limit
    /\ encoded' = TRUE
    /\ chunks' = <<>>
    /\ IF Len(comb) = 0
       THEN \* comb[0] raises IndexError
            /\ pc' = "error" /\ error' = "IndexError"
            /\ UNCHANGED <<seqVars, i>>
       ELSE /\ current_chunk' = NewChunk(0)
            /\ current_len' = WordCount(comb[1])
            /\ i' = 1
            /\ pc' = "loop"
            /\ UNCHANGED error
    /\ UNCHANGED <<call, funcVars, inputVars, clusterVars>>

SeqLoop ==
    /\ call = "semantic_chunking" /\ pc = "loop"
    /\ i < Len(comb)
    /\ LET sim == cosine_similarity(embeddings[i + 1], embeddings[i])
           next_len == WordCount(comb[i + 1])
       IN  IF Merges(sim, threshold, current_len, next_len, chunk_limit)
           THEN /\ current_chunk' = Append(current_chunk, i)
                /\ current_len' = current_len + next_len
                /\ UNCHANGED chunks
           ELSE /\ chunks' = Append(chunks, EmitChunk(current_chunk))
                /\ current_chunk' = NewChunk(i)
                /\ current_len' = next_len
    /\ i' = i + 1
    /\ UNCHANGED <<call, pc, error, encoded, funcVars, inputVars, chunk_limit,
                   clusterVars>>

SeqReturn ==
    /\ call = "semantic_chunking" /\ pc = "loop"
    /\ i >= Len(comb)
    /\ chunks' = Append(chunks, EmitChunk(current_chunk))
    /\ pc' = "done"
    /\ UNCHANGED <<call, error, encoded, funcVars, inputVars, chunk_limit, i,
                   seqVars, clusterVars>>

(***************************************************************************)
(* semantic_cluster_chunking(comb, anchor_stride, chunk_limit)             *)
(***************************************************************************)
\* cosine_similarity([anchor_emb], embeddings)[0], enumerated: the pairs
\* <<idx, sim>> in index order
Similarities(anchor) ==
    [k \in 1 .. Len(embeddings) |->
        <<k - 1, cosine_similarity(embeddings[anchor + 1], embeddings[k])>>]

\* mutant of InsertRanked: the ranking ascends
RECURSIVE InsertRankedAscending(_, _)
InsertRankedAscending(x, sorted) ==
    IF sorted = <<>> THEN <<x>>
    ELSE IF sorted[Len(sorted)][2] <= x[2] THEN Append(sorted, x)
    ELSE Append(InsertRankedAscending(x, SubSeq(sorted, 1, Len(sorted) - 1)),
                sorted[Len(sorted)])

\* mutant of InsertRanked: equal similarities are not kept in index order
RECURSIVE InsertRankedUnstable(_, _)
InsertRankedUnstable(x, sorted) ==
    IF sorted = <<>> THEN <<x>>
    ELSE IF sorted[Len(sorted)][2] > x[2] THEN Append(sorted, x)
    ELSE Append(InsertRankedUnstable(x, SubSeq(sorted, 1, Len(sorted) - 1)),
                sorted[Len(sorted)])

\* the place of pair x in an already sorted list: behind every pair whose
\* similarity is at least as high (sorted is stable, key = -sim)
RECURSIVE InsertRanked(_, _)
InsertRanked(x, sorted) ==
    IF sorted = <<>> THEN <<x>>
    ELSE IF sorted[Len(sorted)][2] >= x[2] THEN Append(sorted, x)
    ELSE Append(InsertRanked(x, SubSeq(sorted, 1, Len(sorted) - 1)),
                sorted[Len(sorted)])

\* sorted(pairs, key=lambda x: -x[1])
RECURSIVE Sorted(_)
Sorted(pairs) ==
    IF pairs = <<>> THEN <<>>
    ELSE InsertRanked(pairs[Len(pairs)], Sorted(SubSeq(pairs, 1, Len(pairs) - 1)))

\* i is produced by range(0, len(comb), anchor_stride)
InAnchorRange(a) ==
    \/ anchor_stride > 0 /\ a < Len(comb)
    \/ anchor_stride < 0 /\ a > Len(comb)

\* mutant of Fits: a candidate that fills the limit exactly is rejected
FitsStrictly(count, wc, limit) == count + wc < limit

\* the test that accepts an unused candidate
Fits(count, wc, limit) == count + wc <= limit

\* the test that ends the scan of one anchor
LimitReached(count, limit) == count >= limit

\* mutant of MarkUsed: the window is not recorded
MarkUsedNothing(u, idx) == u

\* used.add(idx)
MarkUsed(u, idx) == u \cup {idx}

\* mutant of NextAnchor: the stride is ignored
NextAnchorByOne(a, stride) == a + 1

\* the next value of range(0, len(comb), anchor_stride)
NextAnchor(a, stride) == a + stride

ClusterStart ==
    /\ call = "semantic_cluster_chunking" /\ pc = "start"
    /\ encoded' = TRUE
    /\ chunks' = <<>>
    /\ used' = {}
    /\ IF anchor_stride = 0
       THEN \* range() arg 3 must not be zero
            /\ pc' = "error" /\ error' = "ValueError"
       ELSE /\ pc' = "anchor" /\ UNCHANGED error
    /\ i' = 0
    /\ UNCHANGED <<call, funcVars, inputVars, chunk_limit, seqVars,
                   ranked, pos, chunk, word_count, anchors>>

\* one iteration of the outer loop up to the start of the scan
ClusterAnchor ==
    /\ call = "semantic_cluster_chunking" /\ pc = "anchor"
    /\ InAnchorRange(i)
    /\ ranked' = Sorted(Similarities(i))
    /\ chunk' = <<>>
    /\ word_count' = 0
    /\ pos' = 1
    /\ anchors' = Append(anchors, i)
    /\ pc' = "scan"
    /\ UNCHANGED <<call, error, encoded, funcVars, inputVars, chunk_limit,
                   chunks, i, seqVars, used>>

\* one iteration of the inner loop over ranked
ClusterScan ==
    /\ call = "semantic_cluster_chunking" /\ pc = "scan"
    /\ pos <= Len(ranked)
    /\ LET idx == ranked[pos][1]
           wc == WordCount(comb[idx + 1])
           accept == Fits(word_count, wc, chunk_limit)
           count == IF accept THEN word_count + wc ELSE word_count
       IN  IF idx \in used
           THEN /\ pos' = pos + 1
                /\ UNCHANGED <<pc, chunk, used, word_count>>
           ELSE /\ chunk' = IF accept THEN Append(chunk, idx) ELSE chunk
                /\ used' = IF accept THEN MarkUsed(used, idx) ELSE used
                /\ word_count' = count
                /\ IF LimitReached(count, chunk_limit)
                   THEN pc' = "emit" /\ UNCHANGED pos
                   ELSE pos' = pos + 1 /\ UNCHANGED pc
    /\ UNCHANGED <<call, error, encoded, funcVars, inputVars, chunk_limit,
                   chunks, i, seqVars, ranked, anchors>>

\* the end of one iteration of the outer loop: after a break or after the
\* ranking is exhausted
ClusterEmit ==
    /\ call = "semantic_cluster_chunking"
    /\ pc = "emit" \/ (pc = "scan" /\ pos > Len(ranked))
    /\ chunks' = IF chunk # <<>> THEN Append(chunks, EmitChunk(chunk)) ELSE chunks
    /\ i' = NextAnchor(i, anchor_stride)
    /\ pc' = "anchor"
    /\ UNCHANGED <<call, error, encoded, funcVars, inputVars, chunk_limit,
                   seqVars, clusterVars>>

ClusterReturn ==
    /\ call = "semantic_cluster_chunking" /\ pc = "anchor"
    /\ ~InAnchorRange(i)
    /\ pc' = "done"
    /\ UNCHANGED <<call, error, encoded, funcVars, inputVars, chunk_limit,
                   chunks, i, seqVars, clusterVars>>

Next ==
    \/ FuncStart \/ FuncLoop \/ FuncReturn
    \/ SeqStart \/ SeqLoop \/ SeqReturn
    \/ ClusterStart \/ ClusterAnchor \/ ClusterScan \/ ClusterEmit \/ ClusterReturn

Spec == Init /\ [][Next]_vars

(***************************************************************************)
(* Vocabulary of the properties.                                           *)
(***************************************************************************)
SeqCall == call = "semantic_chunking"
ClusterCall == call = "semantic_cluster_chunking"
FuncCall == call = "func"

\* the member indices of a list of chunks, concatenated in emission order
RECURSIVE AllMembers(_)
AllMembers(cs) ==
    IF cs = <<>> THEN <<>>
    ELSE AllMembers(SubSeq(cs, 1, Len(cs) - 1)) \o cs[Len(cs)].members

WordsOfWindow(k) == WordCount(comb[k + 1])

NoRepeat(seq) == \A a, b \in 1 .. Len(seq) : a # b => seq[a] # seq[b]

\* C1: when semantic_chunking returns for n >= 1 windows, the member indices
\* of the emitted chunks, concatenated in emission order, are exactly
\* 0, 1, ..., n-1, and no emitted chunk is empty.
SeqChunksPartitionWindows ==
    (SeqCall /\ pc = "done") =>
        /\ AllMembers(chunks) = [k \in 1 .. Len(comb) |-> k - 1]
        /\ \A c \in 1 .. Len(chunks) : chunks[c].members # <<>>

SeqPartitionWitness ==
    /\ SeqCall /\ pc = "done"
    /\ Len(comb) = 3
    /\ Len(chunks) = 2
    /\ Len(chunks[1].members) = 2

\* C2: every chunk emitted by semantic_chunking has a word count of at most
\* chunk_limit, unless it is a single window whose own word count exceeds
\* chunk_limit; such a window is always alone in its chunk.
SeqChunkWithinWordLimit ==
    (SeqCall /\ pc = "done") =>
        \A c \in 1 .. Len(chunks) :
            /\ \/ WordCount(chunks[c].text) <= chunk_limit
               \/ /\ Len(chunks[c].members) = 1
                  /\ WordsOfWindow(chunks[c].members[1]) > chunk_limit
            /\ \A m \in 1 .. Len(chunks[c].members) :
                  WordsOfWindow(chunks[c].members[m]) > chunk_limit
                      => Len(chunks[c].members) = 1

SeqWordLimitWitness ==
    /\ SeqCall /\ pc = "done"
    /\ \E c, d \in 1 .. Len(chunks) :
          /\ Len(chunks[c].members) = 2
          /\ WordCount(chunks[c].text) = chunk_limit
          /\ Len(chunks[d].members) = 1
          /\ WordCount(chunks[d].text) > chunk_limit

\* C3: in every state of semantic_cluster_chunking, no window index occurs
\* twice among the members of the emitted chunks, neither in two chunks nor
\* twice in one chunk.
ClusterChunksDisjoint ==
    ClusterCall => NoRepeat(AllMembers(chunks))

ClusterDisjointWitness ==
    /\ ClusterCall /\ pc = "done"
    /\ Len(chunks) >= 2
    /\ Len(anchors) = 3
    /\ Len(AllMembers(chunks)) = 3

\* C4: with zero windows both chunkers return an empty chunk sequence and do
\* not fail.
EmptyInputReturnsEmpty ==
    ((SeqCall \/ ClusterCall) /\ Len(comb) = 0) =>
        /\ pc # "error"
        /\ pc = "done" => chunks = <<>>

\* C5: a call with a negative buffer_size, a non-positive chunk_limit or
\* anchor_stride, or a threshold outside [0,1] ends in an error before the
\* embedding request is issued and returns nothing.
InvalidArguments ==
    \/ FuncCall /\ buffer_size < 0
    \/ SeqCall /\ ~chunk_limit_is_None /\ chunk_limit <= 0
    \/ SeqCall /\ (threshold < 0 \/ threshold > 100)
    \/ ClusterCall /\ (chunk_limit <= 0 \/ anchor_stride <= 0)

InvalidParameterRejected ==
    InvalidArguments => (~encoded /\ pc # "done")

\* C6: func returns one window per sentence, and window k is the
\* concatenation, without separator, of the sentence texts at positions
\* max(0, k - buffer_size) .. min(n - 1, k + buffer_size), for every
\* buffer_size >= 0; buffer_size = 0 gives the sentences themselves and
\* ["A.", "B.", "C."] with buffer_size = 1 gives "A.B.", "A.B.C.", "B.C.".
RECURSIVE SpanText(_, _)
SpanText(lo, hi) ==
    IF lo > hi THEN <<>>
    ELSE sentences[lo + 1].sentences \o SpanText(lo + 1, hi)

Max(a, b) == IF a > b THEN a ELSE b

FuncWindowsAreSpans ==
    (FuncCall /\ buffer_size >= 0) =>
        /\ pc = "done" => Len(combined) = Len(sentences)
        /\ \A k \in 0 .. Len(combined) - 1 :
              combined[k + 1] =
                  SpanText(Max(0, k - buffer_size),
                           Min(Len(sentences) - 1, k + buffer_size))
        /\ (pc = "done" /\ buffer_size = 0) =>
              \A k \in 1 .. Len(sentences) : combined[k] = sentences[k].sentences
        /\ ( /\ pc = "done" /\ buffer_size = 1
             /\ sentences = << [sentences |-> <<"A", ".">>, index |-> 0],
                               [sentences |-> <<"B", ".">>, index |-> 1],
                               [sentences |-> <<"C", ".">>, index |-> 2] >> ) =>
              combined = << <<"A", ".", "B", ".">>,
                            <<"A", ".", "B", ".", "C", ".">>,
                            <<"B", ".", "C", ".">> >>

FuncWindowsWitness ==
    /\ FuncCall /\ pc = "done" /\ buffer_size = 1
    /\ Len(sentences) = 3
    /\ combined = << <<"A", ".", "B", ".">>,
                     <<"A", ".", "B", ".", "C", ".">>,
                     <<"B", ".", "C", ".">> >>

\* the scan of anchor i has ended, by break or by exhausting the ranking, and
\* its chunk has not been emitted yet
ScanEnded ==
    ClusterCall /\ (pc = "emit" \/ (pc = "scan" /\ pos > Len(ranked)))

ChunkSet == { chunk[k] : k \in 1 .. Len(chunk) }

\* the windows that earlier anchors had marked used when anchor i started
UsedBefore == used \ ChunkSet

SimToAnchor(k) == cosine_similarity(embeddings[i + 1], embeddings[k + 1])

\* C7 as stated: every processed anchor whose own window was not used by an
\* earlier anchor emits a chunk whose first member is the anchor's window.
AnchorFirstInChunk ==
    (ScanEnded /\ i \notin UsedBefore) => (chunk # <<>> /\ chunk[1] = i)

\* a window the scan of anchor i meets before window i and either accepts
\* first or ends the scan on: unused, at least as similar to the anchor as the
\* anchor itself (and of smaller index when equally similar), and either
\* within the word limit on its own or met with a limit that an empty chunk
\* has already reached
AcceptableAhead(k) ==
    /\ k \notin UsedBefore
    /\ \/ SimToAnchor(k) > SimToAnchor(i)
       \/ SimToAnchor(k) = SimToAnchor(i) /\ k < i
    /\ \/ WordsOfWindow(k) <= chunk_limit
       \/ chunk_limit <= 0

\* C7 amended: every processed anchor whose own window was not used by an
\* earlier anchor, has a word count of at most chunk_limit, and is not
\* preceded in the ranking by an unused window that fits the limit (or, with
\* chunk_limit <= 0, by any unused window), emits a chunk whose first member
\* is the anchor's window.
AnchorFirstInChunkWhenItFits ==
    ( /\ ScanEnded
      /\ i \notin UsedBefore
      /\ WordsOfWindow(i) <= chunk_limit
      /\ \A k \in 0 .. Len(comb) - 1 : ~AcceptableAhead(k) )
        => (chunk # <<>> /\ chunk[1] = i)

\* an anchor other than 0 heads its chunk although an equally similar window
\* of smaller index is still unused, too long to be accepted
AnchorFirstWitness ==
    /\ ScanEnded
    /\ chunk_limit >= 1
    /\ i > 0
    /\ i \notin UsedBefore
    /\ WordsOfWindow(i) <= chunk_limit
    /\ \A k \in 0 .. Len(comb) - 1 : ~AcceptableAhead(k)
    /\ \E k \in 0 .. i - 1 :
          k \notin used /\ SimToAnchor(k) = SimToAnchor(i)
    /\ chunk # <<>>
    /\ chunk[1] = i

\* C8 as stated: with anchor_stride >= len(comb) exactly one anchor, index 0,
\* is processed and at most one chunk is emitted.
OneAnchorWhenStrideCoversInput ==
    (ClusterCall /\ anchor_stride >= Len(comb) /\ pc = "done") =>
        (anchors = <<0>> /\ Len(chunks) <= 1)

\* C8 amended: with anchor_stride >= len(comb) >= 1 exactly one anchor, index
\* 0, is processed and at most one chunk is emitted; with zero windows no
\* anchor is processed and no chunk is emitted.
OneAnchorWhenStrideCoversNonEmptyInput ==
    (ClusterCall /\ anchor_stride >= Len(comb)) =>
        /\ Len(comb) >= 1 =>
              /\ Len(chunks) <= 1
              /\ anchors \in {<<>>, <<0>>}
              /\ pc = "done" => anchors = <<0>>
        /\ Len(comb) = 0 => (anchors = <<>> /\ chunks = <<>>)

OneAnchorWitness ==
    /\ ClusterCall /\ pc = "done"
    /\ anchor_stride = Len(comb)
    /\ Len(comb) >= 2
    /\ anchors = <<0>>
    /\ Len(chunks) = 1
    /\ Len(chunks[1].members) < Len(comb)

\* C9: with threshold = 1.0, two windows share a chunk of semantic_chunking
\* only when they are adjacent windows with identical embeddings; every other
\* chunk is a single window.
SeqThresholdOneSplitsDistinct ==
    (SeqCall /\ pc = "done" /\ threshold = 100) =>
        \A c \in 1 .. Len(chunks) :
            \A m \in 2 .. Len(chunks[c].members) :
                LET a == chunks[c].members[m - 1]
                    b == chunks[c].members[m]
                IN  b = a + 1 /\ embeddings[a + 1] = embeddings[b + 1]

SeqThresholdOneWitness ==
    /\ SeqCall /\ pc = "done" /\ threshold = 100
    /\ Len(comb) = 3
    /\ embeddings[1] = embeddings[2]
    /\ embeddings[2] # embeddings[3]
    /\ Len(chunks) = 2
    /\ chunks[1].members = <<0, 1>>

\* the chunk of the result that holds window k
ChunkOf(k) ==
    CHOOSE c \in 1 .. Len(chunks) :
        \E m \in 1 .. Len(chunks[c].members) : chunks[c].members[m] = k

\* the members of the chunk of window k up to and including k
PrefixTo(k) ==
    LET ms == chunks[ChunkOf(k)].members
        m == CHOOSE n \in 1 .. Len(ms) : ms[n] = k
    IN  SubSeq(ms, 1, m)

\* C10: in the result of semantic_chunking, window k >= 1 is in the chunk of
\* window k-1 exactly when similarity(k, k-1) > threshold and the words of
\* that chunk up to k-1 plus the words of window k are <= chunk_limit;
\* otherwise window k is the first member of the next chunk.  With threshold
\* 0.75, similarities 0.9 and 0.5 and chunk_limit 512 the chunks are [0,1], [2].
SeqMergeRule ==
    (SeqCall /\ pc = "done") =>
        /\ \A k \in 1 .. Len(comb) - 1 :
              LET sim == cosine_similarity(embeddings[k + 1], embeddings[k])
                  before == WordCount(Join(TextsOf(PrefixTo(k - 1))))
                  merge == sim > threshold
                             /\ before + WordsOfWindow(k) <= chunk_limit
              IN  /\ merge => ChunkOf(k) = ChunkOf(k - 1)
                  /\ ~merge => /\ ChunkOf(k) = ChunkOf(k - 1) + 1
                               /\ chunks[ChunkOf(k)].members[1] = k
        /\ ( /\ threshold = 75 /\ chunk_limit = 512 /\ Len(comb) = 3
             /\ embeddings = <<"u", "v", "w">> ) =>
              /\ Len(chunks) = 2
              /\ chunks[1].members = <<0, 1>>
              /\ chunks[2].members = <<2>>

SeqMergeRuleWitness ==
    /\ SeqCall /\ pc = "done"
    /\ threshold = 75 /\ chunk_limit = 512 /\ Len(comb) = 3
    /\ embeddings = <<"u", "v", "w">>
    /\ chunks[1].members = <<0, 1>>
    /\ chunks[2].members = <<2>>

\* the candidate of the current scan step, and whether the step rejects it
Candidate == ranked[pos][1]

ScanStep == ClusterCall /\ pc = "scan" /\ pos <= Len(ranked)

Rejects ==
    /\ ScanStep
    /\ Candidate \notin used
    /\ word_count + WordsOfWindow(Candidate) > chunk_limit

\* C11: in the scan of one anchor, rejecting a candidate that would push the
\* running total above chunk_limit does not stop the scan; the scan stops
\* before the end of the ranking only when the running total has reached
\* chunk_limit; and an already used candidate is skipped without any effect on
\* the total.
ScanStopsOnlyAtLimit ==
    [][ /\ Rejects => (pc' = "scan" /\ pos' = pos + 1)
        /\ (ScanStep /\ pc' = "emit") => word_count' >= chunk_limit
        /\ (ScanStep /\ Candidate \in used) =>
              (word_count' = word_count /\ chunk' = chunk /\ pc' = "scan")
      ]_vars

SimBetween(a, k) == cosine_similarity(embeddings[a + 1], embeddings[k + 1])

\* window j ranks before window k for anchor a
RanksBefore(j, k, a) ==
    \/ SimBetween(a, j) > SimBetween(a, k)
    \/ SimBetween(a, j) = SimBetween(a, k) /\ j < k

InRankOrder(members, a) ==
    \A p, q \in 1 .. Len(members) :
        p < q => RanksBefore(members[p], members[q], a)

\* the texts of the members, joined by single spaces from the left
RECURSIVE SpaceJoined(_)
SpaceJoined(members) ==
    IF members = <<>> THEN <<>>
    ELSE IF Len(members) = 1 THEN comb[members[1] + 1]
    ELSE SpaceJoined(SubSeq(members, 1, Len(members) - 1))
             \o <<" ">> \o comb[members[Len(members)] + 1]

\* C12: for each anchor the candidates are scanned by descending similarity
\* to the anchor, equal similarities by ascending window index; the members
\* of the chunk being built and of every emitted chunk are in that rank order,
\* and a chunk's text is its member texts joined by spaces in that order.
ClusterScansInRankOrder ==
    ClusterCall =>
        /\ pc \in {"scan", "emit"} =>
              /\ Len(ranked) = Len(comb)
              /\ \A p \in 1 .. Len(ranked) :
                    /\ ranked[p][1] \in 0 .. Len(comb) - 1
                    /\ ranked[p][2] = SimBetween(i, ranked[p][1])
              /\ \A p, q \in 1 .. Len(ranked) :
                    p < q => RanksBefore(ranked[p][1], ranked[q][1], i)
              /\ InRankOrder(chunk, i)
              /\ \A m \in 1 .. Len(chunk) :
                    \E p \in 1 .. Len(ranked) : p <= pos /\ ranked[p][1] = chunk[m]
        /\ \A c \in 1 .. Len(chunks) :
              /\ \E a \in 1 .. Len(anchors) :
                    InRankOrder(chunks[c].members, anchors[a])
              /\ chunks[c].text = SpaceJoined(chunks[c].members)

\* a chunk whose first two members have the same similarity to the anchor and
\* whose last member precedes the second in the document
ClusterRankOrderWitness ==
    /\ ClusterCall /\ pc = "done"
    /\ Len(chunks) = 1
    /\ chunks[1].members = <<0, 2, 1>>
    /\ embeddings[1] = embeddings[3]
    /\ chunks[1].text = <<"a", " ", "b", " ", "c", " ", "a">>

RECURSIVE WordsOfMembers(_)
WordsOfMembers(members) ==
    IF members = <<>> THEN 0
    ELSE WordsOfWindow(members[1]) + WordsOfMembers(Tail(members))

\* C13: during every scan word_count is the sum of the word counts of the
\* windows accepted so far for the anchor and is at most chunk_limit; every
\* emitted chunk has at most chunk_limit words, without exception, and no
\* window of more than chunk_limit words is a member of an emitted chunk.
ClusterWordBudget ==
    ClusterCall =>
        /\ pc \in {"scan", "emit"} =>
              /\ word_count = WordsOfMembers(chunk)
              /\ word_count <= chunk_limit
        /\ \A c \in 1 .. Len(chunks) :
              /\ WordCount(chunks[c].text) <= chunk_limit
              /\ \A m \in 1 .. Len(chunks[c].members) :
                    WordsOfWindow(chunks[c].members[m]) <= chunk_limit

AllWindows == 0 .. Len(comb) - 1

TotalWords == WordsOfMembers([k \in 1 .. Len(comb) |-> k - 1])

\* when the scan of an anchor has ended, the total is exactly chunk_limit or
\* no unused window fits into what is left of it
NothingFittingLeft ==
    ScanEnded =>
        \/ word_count = chunk_limit
        \/ \A k \in AllWindows \ used :
              WordsOfWindow(k) > chunk_limit - word_count

MembersOf(c) == { c.members[m] : m \in 1 .. Len(c.members) }

\* C14 as stated, for the calls with a positive chunk_limit that process
\* anchor 0: the scan of an anchor leaves no unused window that still fits
\* unless the total is exactly chunk_limit, and when all windows together
\* have at most chunk_limit words anchor 0 claims every window and exactly one
\* chunk is emitted.
ClusterGreedyMaximal ==
    ClusterCall =>
        /\ NothingFittingLeft
        /\ (Len(comb) >= 1 /\ chunk_limit >= 1 /\ TotalWords <= chunk_limit) =>
              /\ (ScanEnded /\ i = 0) => ChunkSet = AllWindows
              /\ (pc = "done" /\ anchors # <<>>) =>
                    (Len(chunks) = 1 /\ MembersOf(chunks[1]) = AllWindows)

\* the windows cannot fill chunk_limit before the last of them is accepted
AllWindowsFit ==
    \/ TotalWords < chunk_limit
    \/ /\ TotalWords = chunk_limit
       /\ \A k \in AllWindows : WordsOfWindow(k) >= 1

\* C14 amended: the scan of an anchor leaves no unused window that still fits
\* unless the total is exactly chunk_limit, and when all windows together
\* have fewer than chunk_limit words, or exactly chunk_limit words with no
\* window of zero words, anchor 0 claims every window and exactly one chunk is
\* emitted.
ClusterGreedyMaximalWhenAllFit ==
    ClusterCall =>
        /\ NothingFittingLeft
        /\ (Len(comb) >= 1 /\ AllWindowsFit) =>
              /\ (ScanEnded /\ i = 0) => ChunkSet = AllWindows
              /\ Len(chunks) <= 1
              /\ (pc = "done" /\ anchors # <<>>) =>
                    (Len(chunks) = 1 /\ MembersOf(chunks[1]) = AllWindows)

\* a scan has ended below the limit after rejecting a window and accepting a
\* later one, and the windows it leaves unused are all too long for the rest
ClusterGreedyWitness ==
    /\ ScanEnded
    /\ pos > Len(ranked)
    /\ chunk_limit >= 1
    /\ word_count < chunk_limit
    /\ chunk # <<>>
    /\ AllWindows \ used # {}
    /\ \E p \in 1 .. Len(ranked) :
          /\ ranked[p][1] \notin used
          /\ \E q \in p + 1 .. Len(ranked) : ranked[q][1] \in ChunkSet

\* all windows fit exactly, none is empty, and the one chunk holds them all
ClusterAllFitWitness ==
    /\ ClusterCall /\ pc = "done"
    /\ Len(comb) = 2
    /\ TotalWords = chunk_limit
    /\ AllWindowsFit
    /\ Len(anchors) = 2
    /\ Len(chunks) = 1

====
